---- MODULE Spec2Model ----
(***************************************************************************)
(* A model of tqdm.py: the two formatters, the StatusPrinter and one pass  *)
(* of the tqdm generator driven by its consumer.  Text is a sequence of    *)
(* one-character strings; times are whole seconds.                         *)
(***************************************************************************)
EXTENDS Integers, Sequences, FiniteSets, TLC

\* ------------------------------------------------------------------ bounds
MaxLen == 2
MaxTotal == 1
MaxInterval == 1
MaxMiniters == 2
MaxT == 1

\* --------------------------------------------------------- text primitives
None == -1
TypeError == <<"TypeError">>
CR == "\r"
LF == "\n"

Max(a, b) == IF a >= b THEN a ELSE b
Abs(a) == IF a < 0 THEN -a ELSE a

Rep(c, k) == [i \in 1..k |-> c]

DigitChar(d) == <<"0", "1", "2", "3", "4", "5", "6", "7", "8", "9">>[d + 1]

RECURSIVE NatStr(_)
NatStr(k) == IF k < 10 THEN <<DigitChar(k)>>
             ELSE NatStr(k \div 10) \o <<DigitChar(k % 10)>>

\* '%d' % k
IntStr(k) == IF k < 0 THEN <<"-">> \o NatStr(-k) ELSE NatStr(k)

\* right-justify to width w with pad character c ('%3d', '%02d', '%5.2f')
RJust(s, w, c) == Rep(c, Max(w - Len(s), 0)) \o s

\* '%02d' % k
Pad2(k) == IF k < 0 THEN <<"-">> \o RJust(NatStr(-k), 1, "0")
           ELSE RJust(NatStr(k), 2, "0")

\* as Trunc, to the nearest integer
Trunc_Round(num, den) == (2 * num + den) \div (2 * den)

\* int(num / den) for den > 0: truncation toward zero
Trunc(num, den) == IF num >= 0 THEN num \div den ELSE -((-num) \div den)

\* '%5.2f' % (num / den), den # 0: round half to even at two decimals
Fix2(num, den) ==
    LET a == Abs(num) * 100
        b == Abs(den)
        q == a \div b
        r == a % b
        h == IF 2 * r > b \/ (2 * r = b /\ q % 2 = 1) THEN q + 1 ELSE q
        neg == (num < 0 /\ den > 0) \/ (num >= 0 /\ den < 0)
        body == NatStr(h \div 100) \o <<".">> \o RJust(NatStr(h % 100), 2, "0")
    IN  RJust(IF neg THEN <<"-">> \o body ELSE body, 5, " ")

\* ------------------------------------------------------------- formatters
\* as format_interval_q, without the second divmod
format_interval_q_Minutes(num, den) ==
    LET t == Trunc(num, den)
        mins == t \div 60
        s == t % 60
        h == mins \div 60
    IN  IF h # 0 THEN IntStr(h) \o <<":">> \o Pad2(mins) \o <<":">> \o Pad2(s)
        ELSE Pad2(mins) \o <<":">> \o Pad2(s)

\* format_interval(num / den), den > 0
format_interval_q(num, den) ==
    LET t == Trunc(num, den)
        mins == t \div 60
        s == t % 60
        h == mins \div 60
        m == mins % 60
    IN  IF h # 0 THEN IntStr(h) \o <<":">> \o Pad2(m) \o <<":">> \o Pad2(s)
        ELSE Pad2(m) \o <<":">> \o Pad2(s)

format_interval(t) == format_interval_q(t, 1)

n_bars == 10

\* n > total at line 33: Python 3 refuses to order an int and None, Python 2
\* orders None below every int
Exceeds(n, total, python3) ==
    IF total = None THEN IF python3 THEN "TypeError" ELSE "True"
    ELSE IF n > total THEN "True" ELSE "False"

format_meter_on(n, total, elapsed, python3) ==
    LET cmp == Exceeds(n, total, python3)
        tot == IF cmp = "True" THEN None ELSE total
        elapsed_str == format_interval(elapsed)
        rate == IF elapsed # 0 THEN Fix2(n, elapsed) ELSE <<"?">>
    IN  IF cmp = "TypeError" THEN TypeError
        ELSE IF tot # None /\ tot # 0
        THEN LET bar_length == Trunc(n * n_bars, tot)
                 bar == Rep("#", bar_length) \o Rep("-", n_bars - bar_length)
                 percentage == RJust(IntStr(Trunc(n * 100, tot)), 3, " ") \o <<"%">>
                 left_str == IF n # 0
                             THEN format_interval_q(elapsed * (tot - n), n)
                             ELSE <<"?">>
             IN  <<"|">> \o bar \o <<"|", " ">> \o IntStr(n) \o <<"/">> \o IntStr(tot)
                 \o <<" ">> \o percentage
                 \o <<" ", "[", "e", "l", "a", "p", "s", "e", "d", ":", " ">>
                 \o elapsed_str \o <<" ", "l", "e", "f", "t", ":", " ">> \o left_str
                 \o <<",", " ">> \o rate
                 \o <<" ", "i", "t", "e", "r", "s", "/", "s", "e", "c", "]">>
        ELSE IntStr(n) \o <<" ", "[", "e", "l", "a", "p", "s", "e", "d", ":", " ">>
             \o elapsed_str \o <<",", " ">> \o rate
             \o <<" ", "i", "t", "e", "r", "s", "/", "s", "e", "c", "]">>

\* -------------------------------------------------------------- the state
VARIABLES
    iterable,          \* the wrapped sequence, as the list of its elements
    python3,           \* the interpreter: Python 3 (range) or Python 2 (xrange)
    desc, total, leave, file, mininterval, miniters,    \* tqdm's arguments
    prefix, start_t, last_print_t, last_print_n, n, cur_t,   \* tqdm's locals
    last_printed_len,  \* sp.last_printed_len
    pc,                \* where the generator stands
    pulled,            \* elements taken from the wrapped sequence so far
    delivered,         \* elements the consumer has received, in order
    writes,            \* every write to a stream so far, in order
    unflushed,         \* writes to file since its last flush
    now, mono,         \* last reading of time.time(); no reading went backwards
    call, result       \* the last direct call of a formatter or of print_status
                       \* (outside a pass: none is made), and what it returned

config == <<iterable, python3, desc, leave, file, mininterval, miniters>>
vars == <<iterable, python3, desc, total, leave, file, mininterval,
          miniters, prefix, start_t, last_print_t, last_print_n, n, cur_t,
          last_printed_len, pc, pulled, delivered, writes, unflushed, now, mono,
          call, result>>

Elements == {1, 2}
Times == 0..MaxT
Streams == {"stdout", "stderr"}
Descs == {<<>>, <<"d">>}

RECURSIVE SeqsUpTo(_)
SeqsUpTo(k) == IF k = 0 THEN {<<>>}
               ELSE SeqsUpTo(k - 1) \cup [1..k -> Elements]

Init ==
    /\ iterable \in SeqsUpTo(MaxLen)
    /\ python3 \in BOOLEAN
    /\ desc \in Descs
    /\ total \in {None} \cup 0..MaxTotal
    /\ leave \in BOOLEAN
    /\ file \in Streams
    /\ mininterval \in 0..MaxInterval
    /\ miniters \in 0..MaxMiniters
    /\ prefix = <<>>
    /\ start_t = None /\ last_print_t = None /\ cur_t = None
    /\ last_print_n = 0 /\ n = 0
    /\ last_printed_len = 0
    /\ pc = "created"
    /\ pulled = 0
    /\ delivered = <<>>
    /\ writes = <<>>
    /\ unflushed = 0
    /\ now = 0 /\ mono = TRUE
    /\ call = [fn |-> "none"] /\ result = <<>>

\* ------------------------------------------------ the generator's own state
\* The part of the state one call of next() can change, as a record.
Frame == [pc |-> pc, n |-> n, last_print_n |-> last_print_n,
          last_print_t |-> last_print_t, start_t |-> start_t, cur_t |-> cur_t,
          last_printed_len |-> last_printed_len, writes |-> writes,
          unflushed |-> unflushed, now |-> now, mono |-> mono]

Set(f) ==
    /\ pc' = f.pc /\ n' = f.n /\ last_print_n' = f.last_print_n
    /\ last_print_t' = f.last_print_t /\ start_t' = f.start_t /\ cur_t' = f.cur_t
    /\ last_printed_len' = f.last_printed_len /\ writes' = f.writes
    /\ unflushed' = f.unflushed /\ now' = f.now /\ mono' = f.mono

\* time.time() returning t
Sample(f, t) == [f EXCEPT !.now = t, !.mono = f.mono /\ t >= f.now]

\* stream.write(s); kind and count say which statement wrote and the n it
\* showed, t is the clock reading that goes with the write (the last one taken)
Write(f, stream, s, kind, count) ==
    [f EXCEPT !.writes = Append(@, [to |-> stream, s |-> s, kind |-> kind,
                                    n |-> count, t |-> f.now]),
              !.unflushed = IF stream = file THEN f.unflushed + 1 ELSE f.unflushed]

\* as print_status, without the padding
print_status_NoPad(f, s, kind, count) ==
    LET w == Write(f, file, <<CR>> \o s, kind, count)
    IN  [w EXCEPT !.unflushed = 0, !.last_printed_len = Len(s)]

\* StatusPrinter.print_status(s)
print_status(f, s, kind, count) ==
    LET w == Write(f, file,
                   <<CR>> \o s \o Rep(" ", Max(f.last_printed_len - Len(s), 0)),
                   kind, count)
    IN  [w EXCEPT !.unflushed = 0, !.last_printed_len = Len(s)]

format_meter(count, tot, elapsed) == format_meter_on(count, tot, elapsed, python3)

\* sp.print_status(prefix + format_meter(count, total, elapsed)); the TypeError
\* of format_meter leaves the generator before anything is written
Render(f, pre, tot, count, elapsed, kind) ==
    LET meter == format_meter(count, tot, elapsed)
    IN  IF meter = TypeError THEN [f EXCEPT !.pc = "raised"]
        ELSE print_status(f, pre \o meter, kind, count)

\* n += 1
Count(f) == [f EXCEPT !.n = @ + 1]

CountDue_Always(f) == TRUE

\* n - last_print_n >= miniters
CountDue(f) == f.n - f.last_print_n >= miniters

TimeDue_Always(f) == TRUE

\* cur_t - last_print_t >= mininterval
TimeDue(f) == f.cur_t - f.last_print_t >= mininterval

MarkPrinted_NoTime(f) == [f EXCEPT !.last_print_n = f.n]

MarkPrinted_NoCount(f) == [f EXCEPT !.last_print_t = f.cur_t]

\* last_print_n = n; last_print_t = cur_t
MarkPrinted(f) == [f EXCEPT !.last_print_n = f.n, !.last_print_t = f.cur_t]

\* lines 109-113 when time.time() returns t
TimedRender(f, t) ==
    LET f1 == [Sample(f, t) EXCEPT !.cur_t = t]
        f2 == Render(f1, prefix, total, f1.n, f1.cur_t - f1.start_t, "loop")
    IN  IF ~TimeDue(f1) THEN f1
        ELSE IF f2.pc = "raised" THEN f2
        ELSE MarkPrinted(f2)

\* the statements after the yield, up to the next turn of the for loop: the
\* frames they can end in, one for each value time.time() can return
AfterYield(f) ==
    LET f1 == Count(f)
    IN  IF CountDue(f1) THEN {TimedRender(f1, t) : t \in Times} ELSE {f1}

NeedFinalRender_Always(f) == f.last_print_n <= f.n

\* last_print_n < n
NeedFinalRender(f) == f.last_print_n < f.n

\* lines 120-121 when time.time() returns t
FinalRender(f, t) ==
    LET f1 == [Sample(f, t) EXCEPT !.cur_t = t]
    IN  Render(f1, prefix, total, f1.n, f1.cur_t - f1.start_t, "final")

\* file.write('\n') and the end of the generator
Newline(f) ==
    IF f.pc = "raised" THEN f
    ELSE [Write(f, file, <<LF>>, "newline", None) EXCEPT !.pc = "done"]

\* the statements after the for loop: the frames they can end in
Finish(f) ==
    IF ~leave
    THEN {[Write(print_status(f, <<>>, "clear", None), "stdout", <<CR>>, "cr", None)
             EXCEPT !.pc = "done"]}
    ELSE IF NeedFinalRender(f)
    THEN {Newline(FinalRender(f, t)) : t \in Times}
    ELSE {Newline(f)}

\* as Pull, counting the element before it is yielded
Pull_CountFirst(f) ==
    IF f.pc = "raised"
    THEN Set(f) /\ UNCHANGED <<pulled, delivered>>
    ELSE IF pulled < Len(iterable)
    THEN /\ Set([Count(f) EXCEPT !.pc = "yielded"])
         /\ pulled' = pulled + 1
         /\ delivered' = Append(delivered, iterable[pulled + 1])
    ELSE /\ \E g \in Finish(f) : Set(g)
         /\ UNCHANGED <<pulled, delivered>>

\* as Pull, taking the whole wrapped sequence at the first request
Pull_ReadAhead(f) ==
    IF f.pc = "raised"
    THEN Set(f) /\ UNCHANGED <<pulled, delivered>>
    ELSE IF Len(delivered) < Len(iterable)
    THEN /\ Set([f EXCEPT !.pc = "yielded"])
         /\ pulled' = Len(iterable)
         /\ delivered' = Append(delivered, iterable[Len(delivered) + 1])
    ELSE /\ \E g \in Finish(f) : Set(g)
         /\ UNCHANGED <<pulled, delivered>>

\* the for statement asks the wrapped sequence for its next element
Pull(f) ==
    IF f.pc = "raised"
    THEN Set(f) /\ UNCHANGED <<pulled, delivered>>
    ELSE IF pulled < Len(iterable)
    THEN /\ Set([f EXCEPT !.pc = "yielded"])
         /\ pulled' = pulled + 1
         /\ delivered' = Append(delivered, iterable[pulled + 1])
    ELSE /\ \E g \in Finish(f) : Set(g)
         /\ UNCHANGED <<pulled, delivered>>

\* lines 89-102 when len(iterable) is defined or not (hasLen) and time.time()
\* returns t: the new total, the prefix and the frame; the reading that goes
\* with the initial line is the one taken right after it, last_print_t
Prologue(hasLen, t) ==
    LET tot == IF total = None
               THEN IF hasLen THEN Len(iterable) ELSE None
               ELSE total
        pre == IF desc # <<>> THEN desc \o <<":", " ">> ELSE <<>>
        f1 == Render(Frame, pre, tot, 0, 0, "initial")
        f2 == [Sample(f1, t) EXCEPT !.start_t = t, !.last_print_t = t,
                                    !.last_print_n = 0, !.n = 0,
                                    !.writes[Len(f1.writes)].t = t]
    IN  [total |-> tot, prefix |-> pre, frame |-> IF f1.pc = "raised" THEN f1 ELSE f2]

\* ---------------------------------------------------------------- actions
\* the consumer's first next(): the generator body runs to its first yield
Start ==
    /\ pc = "created"
    /\ \E hasLen \in BOOLEAN, t \in Times :
         LET p == Prologue(hasLen, t)
         IN  /\ total' = p.total
             /\ prefix' = p.prefix
             /\ Pull(p.frame)
    /\ UNCHANGED <<config, call, result>>

\* a later next(): the generator resumes after the yield
Resume ==
    /\ pc = "yielded"
    /\ \E f \in AfterYield(Frame) : Pull(f)
    /\ UNCHANGED <<config, total, prefix, call, result>>

\* as Close, with the statements after the loop run on the way out
Close_Finally ==
    /\ pc \in {"created", "yielded"}
    /\ \E g \in Finish(Frame) : Set([g EXCEPT !.pc = "closed"])
    /\ UNCHANGED <<config, total, prefix, pulled, delivered, call, result>>

\* the consumer stops early (break, close(), or dropping the generator):
\* GeneratorExit is raised at the yield and nothing after it runs
Close ==
    /\ pc \in {"created", "yielded"}
    /\ pc' = "closed"
    /\ UNCHANGED <<config, total, prefix, start_t, last_print_t, last_print_n, n,
                   cur_t, last_printed_len, pulled, delivered, writes, unflushed,
                   now, mono, call, result>>

Next == Start \/ Resume \/ Close

Spec == Init /\ [][Next]_vars

\* ------------------------------------------- the formatters called directly
MaxN == 11
MaxElapsed == 3
MaxHalfSeconds == 7400

\* no generator is running: tqdm's arguments and locals are at rest
NoPass ==
    /\ iterable = <<>> /\ desc = <<>> /\ total = None /\ leave = FALSE
    /\ mininterval = 0 /\ miniters = 1
    /\ prefix = <<>>
    /\ start_t = None /\ last_print_t = None /\ cur_t = None
    /\ last_print_n = 0 /\ n = 0
    /\ pulled = 0 /\ delivered = <<>>
    /\ now = 0 /\ mono = TRUE

pass == <<iterable, desc, total, leave, mininterval, miniters, prefix, start_t,
          last_print_t, last_print_n, n, cur_t, pulled, delivered, now, mono>>
sink == <<file, last_printed_len, writes, unflushed>>

\* the calls made: format_meter(n, total, elapsed) with whole seconds, and
\* format_interval(t) with t = num / 2 seconds
MeterCalls ==
    [fn : {"format_meter"}, n : 0..MaxN, total : {None} \cup 0..MaxN,
     elapsed : 0..MaxElapsed]
IntervalCalls == [fn : {"format_interval"}, num : 0..MaxHalfSeconds, den : {2}]

\* a formatter is about to be called; pc says whether the call has returned
InitFmt ==
    /\ NoPass
    /\ python3 \in BOOLEAN
    /\ file = "stderr" /\ last_printed_len = 0 /\ writes = <<>> /\ unflushed = 0
    /\ pc = "calling"
    /\ call \in MeterCalls \cup IntervalCalls
    /\ result = <<>>

\* format_meter(n, total, elapsed) returns, or raises TypeError
CallFormatMeter ==
    /\ pc = "calling" /\ call.fn = "format_meter"
    /\ result' = format_meter(call.n, call.total, call.elapsed)
    /\ pc' = "returned"
    /\ UNCHANGED <<pass, sink, python3, call>>

\* format_interval(t) returns
CallFormatInterval ==
    /\ pc = "calling" /\ call.fn = "format_interval"
    /\ result' = format_interval_q(call.num, call.den)
    /\ pc' = "returned"
    /\ UNCHANGED <<pass, sink, python3, call>>

NextFmt == CallFormatMeter \/ CallFormatInterval

SpecFmt == InitFmt /\ [][NextFmt]_vars

\* ------------------------------------------------ reading the write log
RenderKinds == {"initial", "loop", "final"}
StatusKinds == RenderKinds \cup {"clear"}

OfKind(kinds) == SelectSeq(writes, LAMBDA w : w.kind \in kinds)
ToFile == SelectSeq(writes, LAMBDA w : w.to = file)
NLoop == Len(OfKind({"loop"}))

AllSpaces(s) == \A i \in 1..Len(s) : s[i] = " "

\* s is '\r', then line, then nothing but padding
IsLine(s, line) ==
    /\ Len(s) >= 1 + Len(line)
    /\ SubSeq(s, 1, 1 + Len(line)) = <<CR>> \o line
    /\ AllSpaces(SubSeq(s, 2 + Len(line), Len(s)))

Elapsed == (0 - MaxT)..MaxT

\* w is a status line showing the meter, in the interpreter's rendering, for count
ShowsCount(w, count) ==
    \E e \in Elapsed :
        LET meter == format_meter(count, total, e)
        IN  meter # TypeError /\ IsLine(w.s, prefix \o meter)

\* the meter lines written so far, in order
Renders == OfKind(RenderKinds)

\* the render w wrote prefix + format_meter(w.n, total, elapsed), with the
\* elapsed time of its clock reading (0 for the initial line)
ShowsItsCount(w) ==
    LET meter == format_meter(w.n, total,
                              IF w.kind = "initial" THEN 0 ELSE w.t - start_t)
    IN  meter # TypeError /\ IsLine(w.s, prefix \o meter)

\* the unknown-total shape "<n> [elapsed: ..., ... iters/sec]"
UnknownShape(w) ==
    \E count \in 0..(MaxLen + 1), e \in Elapsed :
        IsLine(w.s, prefix \o format_meter_on(count, None, e, FALSE))

\* '\r', empty text, padding over a printed line
IsCleared(w) == Len(w.s) >= 2 /\ w.s[1] = CR /\ AllSpaces(Tail(w.s))

Started == pc \in {"yielded", "done", "raised"}

\* ------------------------------------------------------------------ claims

\* C1: consuming the wrapper to its end (the generator finished, normally or
\* by raising) has delivered exactly the elements of the wrapped sequence, in
\* order, for every configuration.
C1_PassThrough == pc \in {"done", "raised"} => delivered = iterable

\* C2: n never decreases and grows by one exactly when the generator resumes
\* after a yield; while the consumer holds the i-th element, n = i - 1 and no
\* status line written so far shows a count of i or more.
C2_CountAfterResume ==
    /\ [][/\ n' \in {n, n + 1}
          /\ (n' = n + 1) <=> (pc = "yielded" /\ pc' # "closed")]_vars
    /\ [](pc = "yielded" =>
            /\ n = Len(delivered) - 1
            /\ \A k \in 1..Len(writes) :
                 /\ writes[k].kind \in RenderKinds => writes[k].n < Len(delivered)
                 /\ \A c \in Len(delivered)..(MaxLen + 1) : ~ShowsCount(writes[k], c))

C2_Witness ==
    /\ pc = "yielded" /\ Len(delivered) = 2 /\ n = 1
    /\ NLoop = 1 /\ ShowsCount(writes[Len(writes)], 1)

\* C3: with leave=False, once the sequence is fully consumed, the last two
\* writes the file argument received are a cleared status line and then a bare
\* carriage return.
C3_ClearedThenCR ==
    (pc = "done" /\ ~leave) =>
        /\ Len(ToFile) >= 2
        /\ IsCleared(ToFile[Len(ToFile) - 1])
        /\ ToFile[Len(ToFile)].s = <<CR>>

\* C4: with leave=True, once a sequence of L elements is fully consumed, the
\* last status line shows the meter for count L, a final render was forced
\* exactly when the last render before it showed less than L, and the last
\* write of all is a newline to the file, after that line.
C4_LeaveFinal ==
    (pc = "done" /\ leave) =>
        LET k == Len(writes)
            status == OfKind(StatusKinds)
            before == OfKind({"initial", "loop"})
        IN  /\ k >= 2
            /\ writes[k].s = <<LF>> /\ writes[k].to = file
            /\ writes[k - 1] = status[Len(status)]
            /\ writes[k - 1].to = file
            /\ writes[k - 1].n = Len(iterable) /\ ShowsItsCount(writes[k - 1])
            /\ Len(OfKind({"final"})) =
                 IF before[Len(before)].n < Len(iterable) THEN 1 ELSE 0

C4_Witness ==
    /\ pc = "done" /\ leave /\ Len(iterable) = 2
    /\ Len(OfKind({"final"})) = 1 /\ NLoop = 1

\* C5: a step renders inside the loop only if, with the n it counted and the
\* time it sampled, n - last_print_n >= miniters and cur_t - last_print_t >=
\* mininterval; and such a step leaves last_print_n = n and last_print_t = the
\* time sample.
C5_RenderDecision ==
    [][Len(SelectSeq(writes', LAMBDA w : w.kind = "loop")) > NLoop =>
          /\ n' - last_print_n >= miniters
          /\ cur_t' - last_print_t >= mininterval
          /\ last_print_n' = n'
          /\ last_print_t' = cur_t'
          /\ cur_t' = now']_vars

C5_Witness ==
    /\ NLoop = 1 /\ miniters = 2 /\ mininterval = 1 /\ n = 2
    /\ last_print_n = 2 /\ last_print_t = 1

\* the times of the status lines i and i+1 are at least mininterval apart
Spaced(lines, i) == lines[i + 1].t - lines[i].t >= mininterval

\* C6 (as stated): with a non-decreasing clock, any two consecutive status
\* lines of a pass are written at least mininterval apart.
C6_AllRendersSpaced ==
    mono => \A i \in 1..(Len(OfKind(StatusKinds)) - 1) : Spaced(OfKind(StatusKinds), i)

\* C6 (amended): with a non-decreasing clock, a render inside the loop comes
\* at least mininterval after the status line before it; the lines written
\* once the sequence is exhausted (cleared line, forced final render) are not
\* held back.
C6_LoopRendersSpaced ==
    mono => LET lines == OfKind(StatusKinds)
            IN  \A i \in 1..(Len(lines) - 1) :
                   lines[i + 1].kind = "loop" => Spaced(lines, i)

C6_Witness ==
    /\ mono /\ mininterval = 1 /\ NLoop = 1 /\ pc = "done"
    /\ Len(OfKind({"final"})) = 1
    /\ ~Spaced(OfKind(StatusKinds), Len(OfKind(StatusKinds)) - 1)

\* C7: when a sequence of length L is fully consumed with miniters = k >= 1,
\* at most ceil(L / k) renders happened inside the loop, whatever the clock did.
C7_RenderCountBound ==
    (pc = "done" /\ miniters >= 1) =>
        NLoop <= (Len(iterable) + miniters - 1) \div miniters

C7_Witness ==
    /\ pc = "done" /\ miniters = 2 /\ Len(iterable) = 2 /\ NLoop = 1

\* C8: once the first element was requested, the first write of the pass is
\* the line prefix + format_meter(0, total, 0) to the file, and it was written
\* exactly once.
C8_InitialLineFirst ==
    Started =>
        /\ Len(writes) >= 1
        /\ writes[1].to = file
        /\ format_meter(0, total, 0) # TypeError
        /\ writes[1].s = <<CR>> \o prefix \o format_meter(0, total, 0)
        /\ Len(OfKind({"initial"})) = 1

\* C9: after the consumer stopped early, nothing of the termination logic has
\* run: no cleared line, no bare carriage return, no forced final render and
\* no newline was written, whatever leave is, and the element delivered last
\* is not counted in n.
C9_EarlyExit ==
    pc = "closed" =>
        /\ \A k \in 1..Len(writes) :
             /\ writes[k].kind \in {"initial", "loop"}
             /\ ~IsCleared(writes[k])
             /\ writes[k].s # <<CR>> /\ writes[k].s # <<LF>>
        /\ delivered # <<>> => n = Len(delivered) - 1

C9_Witness ==
    /\ pc = "closed" /\ Len(delivered) = 1 /\ Len(iterable) = 2
    /\ Len(writes) = 1 /\ n = 0

\* C10: when no total was supplied and the sequence has no length, the pass
\* raises nothing and every status line it renders has the unknown-total shape.
C10_UnknownLength ==
    (Started /\ total = None) =>
        /\ pc # "raised"
        /\ \A k \in 1..Len(writes) :
             writes[k].kind \in RenderKinds => UnknownShape(writes[k])

\* ---------------------------------------- a StatusPrinter used directly
MaxStr == 2
MaxCalls == 3

Letters == {"a", "b"}

RECURSIVE TextsUpTo(_)
TextsUpTo(k) == IF k = 0 THEN {<<>>}
                ELSE TextsUpTo(k - 1) \cup [1..k -> Letters]

\* StatusPrinter(file)
InitSP ==
    /\ NoPass
    /\ pc = "absent"
    /\ python3 \in BOOLEAN
    /\ file \in Streams
    /\ last_printed_len = 0
    /\ writes = <<>> /\ unflushed = 0
    /\ call = [fn |-> "none"] /\ result = <<>>

\* sp.print_status(s)
CallPrintStatus ==
    /\ Len(writes) < MaxCalls
    /\ \E s \in TextsUpTo(MaxStr) :
         LET f == print_status(Frame, s, "status", None)
         IN  /\ call' = [fn |-> "print_status", s |-> s]
             /\ last_printed_len' = f.last_printed_len
             /\ writes' = f.writes
             /\ unflushed' = f.unflushed
    /\ UNCHANGED <<pass, pc, file, python3, result>>

NextSP == CallPrintStatus

SpecSP == InitSP /\ [][NextSP]_vars

\* ------------------------------------------------ reading a returned text
Digits == {"0", "1", "2", "3", "4", "5", "6", "7", "8", "9"}
DigitVal(c) == CHOOSE d \in 0..9 : DigitChar(d) = c
AllDigits(s) == \A i \in 1..Len(s) : s[i] \in Digits

RECURSIVE ParseNat(_)
ParseNat(s) == IF s = <<>> THEN 0
               ELSE 10 * ParseNat(SubSeq(s, 1, Len(s) - 1)) + DigitVal(s[Len(s)])

\* s holds the text part at position i
HasAt(s, i, part) == Len(s) >= i + Len(part) - 1 /\ SubSeq(s, i, i + Len(part) - 1) = part

\* part occurs somewhere in s
Contains(s, part) == \E i \in 1..Len(s) : HasAt(s, i, part)

ItersPerSec == <<"i", "t", "e", "r", "s", "/", "s", "e", "c">>
ElapsedLabel == <<" ", "[", "e", "l", "a", "p", "s", "e", "d", ":", " ">>

\* "<n> [elapsed: ..., ... iters/sec]"
IsUnknownShape(r, count) ==
    /\ r # TypeError
    /\ HasAt(r, 1, IntStr(count) \o ElapsedLabel)
    /\ ~Contains(r, <<"l", "e", "f", "t", ":">>)
    /\ HasAt(r, Len(r) - 9, ItersPerSec \o <<"]">>)

\* "|<bar>| <n>/<total> <pct>% [elapsed: ... left: ..., ... iters/sec]"
IsKnownShape(r, count, tot) ==
    /\ r # TypeError
    /\ Len(r) > 12 /\ r[1] = "|" /\ r[12] = "|"
    /\ \A i \in 2..11 : r[i] \in {"#", "-"}
    /\ HasAt(r, 13, <<" ">> \o IntStr(count) \o <<"/">> \o IntStr(tot) \o <<" ">>)
    /\ \E i \in 13..Len(r) : r[i] = "%" /\ HasAt(r, i + 1, ElapsedLabel)
    /\ Contains(r, <<" ", "l", "e", "f", "t", ":", " ">>)
    /\ HasAt(r, Len(r) - 9, ItersPerSec \o <<"]">>)

\* the rate field: what stands between ", " and " iters/sec]"
RateIs(r, text) == HasAt(r, Len(r) - 12 - Len(text), <<",", " ">> \o text \o <<" ">>)

\* the remaining-time field: what stands between "left: " and ", "
LeftIs(r, text) ==
    Contains(r, <<"l", "e", "f", "t", ":", " ">> \o text \o <<",", " ">>)

\* C11: format_meter returns for every n >= 0, total (unknown or >= 0) and
\* elapsed >= 0, never raising; the line contains "iters/sec", its rate field
\* is "?" when elapsed = 0 and its remaining-time field is "?" when n = 0.
C11_NeverRaises ==
    (pc = "returned" /\ call.fn = "format_meter") =>
        /\ result # TypeError
        /\ Contains(result, ItersPerSec)
        /\ call.elapsed = 0 => RateIs(result, <<"?">>)
        /\ (call.n = 0 /\ Contains(result, <<"l", "e", "f", "t", ":">>))
              => LeftIs(result, <<"?">>)

\* C12: for t >= 0 with S = floor(t), format_interval returns MM:SS when
\* S < 3600 and H:MM:SS (H >= 1, unpadded) otherwise, the fields two digits
\* wide, MM and SS in 0..59, and H*3600 + MM*60 + SS = S: the fraction of a
\* second is dropped.
C12_IntervalFormat ==
    (pc = "returned" /\ call.fn = "format_interval") =>
        LET S == call.num \div call.den
            r == result
            k == Len(r)
            H == ParseNat(SubSeq(r, 1, k - 6))
            MM == ParseNat(SubSeq(r, k - 4, k - 3))
            SS == ParseNat(SubSeq(r, k - 1, k))
        IN  /\ k >= 5
            /\ r[k - 2] = ":"
            /\ AllDigits(SubSeq(r, k - 4, k - 3)) /\ AllDigits(SubSeq(r, k - 1, k))
            /\ MM \in 0..59 /\ SS \in 0..59
            /\ MM = (S \div 60) % 60 /\ SS = S % 60
            /\ IF S < 3600
               THEN k = 5 /\ MM * 60 + SS = S
               ELSE /\ k >= 7 /\ r[k - 5] = ":"
                    /\ AllDigits(SubSeq(r, 1, k - 6)) /\ r[1] # "0"
                    /\ H >= 1 /\ H = S \div 3600
                    /\ H * 3600 + MM * 60 + SS = S

C12_Witness ==
    /\ pc = "returned" /\ call.fn = "format_interval" /\ call.num = 7323 /\ call.den = 2
    /\ result = <<"1", ":", "0", "1", ":", "0", "1">>

\* ------------------------------------------------------ the terminal line
\* the characters the file received, in order
RECURSIVE Chars(_)
Chars(ws) == IF ws = <<>> THEN <<>>
             ELSE Chars(SubSeq(ws, 1, Len(ws) - 1)) \o ws[Len(ws)].s

\* the line a terminal shows after the characters cs[i..]: a carriage return
\* moves to column 0, any other character overwrites in place and moves right
RECURSIVE Show(_, _, _, _)
Show(cs, i, line, col) ==
    IF i > Len(cs) THEN line
    ELSE IF cs[i] = CR THEN Show(cs, i + 1, line, 0)
    ELSE Show(cs, i + 1,
              IF col < Len(line) THEN [line EXCEPT ![col + 1] = cs[i]]
              ELSE Append(line, cs[i]),
              col + 1)

Terminal == Show(Chars(ToFile), 1, <<>>, 0)

\* the length of s without its trailing spaces
RECURSIVE StripLen(_)
StripLen(s) == IF s = <<>> \/ s[Len(s)] # " " THEN Len(s)
               ELSE StripLen(SubSeq(s, 1, Len(s) - 1))

\* C13: after any print_status calls s1..sk (texts without control
\* characters) the terminal line shows sk followed only by spaces; the last
\* call wrote '\r', sk and max(0, last_printed_len - len(sk)) spaces, with
\* last_printed_len the length of the text before, flushed the file and left
\* last_printed_len = len(sk).
C13_Overwrite ==
    call.fn = "print_status" =>
        LET k == Len(writes)
            w == writes[k]
            before == IF k = 1 THEN 0 ELSE StripLen(writes[k - 1].s) - 1
        IN  /\ HasAt(Terminal, 1, call.s)
            /\ AllSpaces(SubSeq(Terminal, Len(call.s) + 1, Len(Terminal)))
            /\ w.to = file
            /\ IsLine(w.s, call.s)
            /\ Len(w.s) = 1 + Len(call.s) + Max(before - Len(call.s), 0)
            /\ unflushed = 0
            /\ last_printed_len = Len(call.s)

C13_Witness ==
    /\ call.fn = "print_status" /\ Len(writes) = 3
    /\ writes[1].s = <<CR, "a", "b">>
    /\ writes[2].s = <<CR, " ", " ">>
    /\ writes[3].s = <<CR, "b">>
    /\ Terminal = <<"b", " ">>

\* total is known, not 0, and n does not exceed it
KnownCase(count, tot) == tot # None /\ tot # 0 /\ count <= tot

\* C14: format_meter gives the known-total shape exactly when total is known,
\* not 0 and n <= total, and the unknown-total shape in every other case
\* (total unknown, total = 0, n > total), without an error.
C14_ShapeChoice ==
    (pc = "returned" /\ call.fn = "format_meter") =>
        IF KnownCase(call.n, call.total)
        THEN IsKnownShape(result, call.n, call.total)
        ELSE IsUnknownShape(result, call.n)

\* the number of '#' marks of the bar of a known-total line
Filled(r) == Cardinality({i \in 2..11 : r[i] = "#"})

\* C15: in the known-total shape (total >= 1, 0 <= n <= total) the bar is 10
\* characters, floor(10 * n / total) '#' marks followed by '-' marks; the
\* filled marks lie in 0..10, do not decrease as n grows, and number 10 only
\* when n = total.
C15_Bar ==
    (pc = "returned" /\ call.fn = "format_meter" /\ KnownCase(call.n, call.total)) =>
        LET r == result
            k == (10 * call.n) \div call.total
        IN  /\ r[1] = "|" /\ r[12] = "|"
            /\ \A i \in 2..11 : r[i] = IF i - 1 <= k THEN "#" ELSE "-"
            /\ Filled(r) = k /\ k \in 0..10
            /\ call.n >= 1 =>
                 Filled(format_meter(call.n - 1, call.total, call.elapsed)) <= Filled(r)
            /\ Filled(r) = 10 <=> call.n = call.total

C15_Witness ==
    /\ pc = "returned" /\ call.fn = "format_meter" /\ call.n = 7 /\ call.total = 11
    /\ SubSeq(result, 1, 12) = <<"|", "#", "#", "#", "#", "#", "#", "-", "-", "-", "-", "|">>

\* C16: the generator never reads ahead of its consumer: at every point where
\* it is suspended or over, the elements taken from the wrapped sequence are
\* exactly the elements delivered, an element is taken only by a step that
\* delivers it, and asking for the length takes none.
C16_Lazy ==
    /\ pulled = Len(delivered)
    /\ pulled <= Len(iterable)
    /\ delivered = SubSeq(iterable, 1, pulled)

C16_Witness ==
    /\ pc = "yielded" /\ Len(iterable) = 2 /\ total = 2
    /\ pulled = 1 /\ delivered = <<iterable[1]>>

\* C17: 0 <= last_print_n <= n <= elements pulled in every state, and the
\* counts shown by the successive meter renders of a pass (initial, in-loop,
\* forced final) strictly increase, for every miniters and mininterval.  The
\* newest render's line is read back to show the count recorded for it.
C17_CountsIncrease ==
    LET r == Renders
    IN  /\ 0 <= last_print_n /\ last_print_n <= n /\ n <= pulled
        /\ r # <<>> => ShowsItsCount(r[Len(r)])
        /\ \A i \in 1..(Len(r) - 1) : r[i].n < r[i + 1].n

C17_Witness ==
    /\ pc = "done" /\ miniters = 0 /\ Len(Renders) = 3
    /\ Renders[1].n = 0 /\ Renders[2].n = 1 /\ Renders[3].n = 2
====
